---- MODULE Spec2Model ----
(***************************************************************************)
(* Session persistence of the todo list: the validator and the persistence *)
(* gateway (utils/sessionStorage: isValidTodo, isValidTodos, loadTodos,    *)
(* saveTodos), the list state owner (contexts/TodoContext: TodoProvider)   *)
(* and the notification relay (hooks/useToast).                            *)
(*                                                                         *)
(* JavaScript values are records tagged by k; a stored text is either a    *)
(* text that JSON.parse rejects (k = "raw") or the JSON text of a value    *)
(* (k = "json", v the value JSON.parse returns for it).                    *)
(***************************************************************************)
EXTENDS Naturals, Sequences, FiniteSets, TLC

VARIABLES
  store,       \* the text under STORAGE_KEY in window.sessionStorage, or Absent
  call,        \* the last call made to the gateway on its own (GatewaySpec)
  phase,       \* TodoProvider: "init" before its first render, "mounted", "crashed"
  todos,       \* TodoProvider's todos state, as of the last render
  pending,     \* the values passed to setTodos since the last render
  effect,      \* the useEffect callback waiting to run after the last render
  toastState,  \* useToast's toastState
  nextId,      \* the number of ids uuidv4 has handed out
  loads,       \* history: the number of loadTodos calls
  hydrated,    \* history: what the loadTodos call of the first render returned
  issued,      \* history: the value each mutator call passed to setTodos
  commits,     \* history: the todos state of each render that changed it
  saved,       \* history: each saveTodos call of the effect, and its outcome
  expected     \* history: the list the mutator calls give, each applied to
               \* the result of the one before

avars == <<phase, todos, pending, effect, toastState, nextId,
           loads, hydrated, issued, commits, saved, expected>>

vars == <<store, call, phase, todos, pending, effect, toastState, nextId,
          loads, hydrated, issued, commits, saved, expected>>

(* ------------------------------ bounds -------------------------------- *)

\* Longest list drawn as an input (stored arrays, lists handed to saveTodos).
MaxLen == 2

\* Instants are 0..MaxTime milliseconds after 2024-01-01T00:00:00.000Z.
MaxTime == 1

\* Mutator calls (add, edit, toggle, delete) in one run of the provider.
MaxOps == 2

Times == 0..MaxTime

(* --------------------------- JavaScript values ------------------------ *)

Undef == [k |-> "undefined"]

Null == [k |-> "null"]

Str(s) == [k |-> "string", s |-> s]

Num(n) == [k |-> "number", n |-> n]

Bool(b) == [k |-> "boolean", b |-> b]

\* new Date(t) for a valid time value t.
DateV(t) == [k |-> "date", time |-> t]

\* A Date whose time value is NaN ("Invalid Date").
InvalidDate == [k |-> "date", invalid |-> TRUE]

Arr(items) == [k |-> "array", items |-> items]

\* fields: a function from the own property names to their values.
Obj(fields) == [k |-> "object", fields |-> fields]

\* typeof v
TypeOf(v) ==
  IF v.k \in {"null", "date", "array", "object"} THEN "object" ELSE v.k

\* !v is false
Truthy(v) ==
  CASE v.k \in {"undefined", "null"} -> FALSE
    [] v.k = "boolean" -> v.b
    [] v.k = "number" -> v.n # 0
    [] v.k = "string" -> v.s # ""
    [] OTHER -> TRUE

\* v instanceof Date
IsDate(v) == v.k = "date"

\* Array.isArray(v)
IsArray(v) == v.k = "array"

\* The own enumerable properties of v, as object spread ({...v}) copies them.
OwnProps(v) ==
  CASE v.k = "object" -> v.fields
    [] v.k = "array" ->
         [n \in {ToString(i - 1) : i \in 1..Len(v.items)} |->
            v.items[CHOOSE i \in 1..Len(v.items) : ToString(i - 1) = n]]
    [] OTHER -> [n \in {} |-> Undef]

\* v[name] for a non-nullish v (own data properties only).
Prop(v, name) ==
  LET props == OwnProps(v)
  IN  IF name \in DOMAIN props THEN props[name] ELSE Undef

\* Date.prototype.toISOString for a valid time value.
ToISOString(t) == "2024-01-01T00:00:00.00" \o ToString(t) \o "Z"

\* new Date(s) for a string s: the ISO form, the date-only form (midnight
\* UTC), and Invalid Date for a text that is no date.
NewDate(s) ==
  IF \E t \in Times : ToISOString(t) = s
    THEN DateV(CHOOSE t \in Times : ToISOString(t) = s)
    ELSE IF s = "2024-01-01" THEN DateV(0) ELSE InvalidDate

(* ------------------------------ JSON ---------------------------------- *)

RECURSIVE ToJSON(_)
\* The value JSON.parse(JSON.stringify(v)) yields: a Date is written by
\* toJSON (its ISO string, null for an Invalid Date), an undefined property
\* is left out, an undefined array element is written as null.
ToJSON(v) ==
  CASE v.k = "date" ->
         IF "time" \in DOMAIN v THEN Str(ToISOString(v.time)) ELSE Null
    [] v.k = "array" ->
         Arr([i \in 1..Len(v.items) |->
                IF v.items[i].k = "undefined" THEN Null ELSE ToJSON(v.items[i])])
    [] v.k = "object" ->
         Obj([n \in {m \in DOMAIN v.fields : v.fields[m].k # "undefined"} |->
                ToJSON(v.fields[n])])
    [] OTHER -> v

\* JSON.stringify(v): the JSON text of v.
JSONStringify(v) == [k |-> "json", v |-> ToJSON(v)]

\* A stored text that is not JSON.
RawText(s) == [k |-> "raw", s |-> s]

\* getItem's null: nothing stored under the key.
Absent == [k |-> "absent"]

\* stored === '', for getItem's result: the empty text only.
FalsyEmptyOnly(stored) == stored.k = "raw" /\ stored.s = ""

\* !stored, for getItem's result: null or the empty text.
Falsy(stored) == stored.k = "absent" \/ (stored.k = "raw" /\ stored.s = "")

\* Whether JSON.parse(text) returns (it throws a SyntaxError otherwise).
Parses(text) == text.k = "json"

(* ----------------------------- validator ------------------------------ *)

\* isValidTodo without its check of completed.
isValidTodoNoCompleted(obj) ==
  IF ~Truthy(obj) \/ TypeOf(obj) # "object"
    THEN FALSE
    ELSE /\ TypeOf(Prop(obj, "id")) = "string"
         /\ TypeOf(Prop(obj, "title")) = "string"
         /\ TypeOf(Prop(obj, "description")) = "string"
         /\ \/ IsDate(Prop(obj, "createdAt"))
            \/ TypeOf(Prop(obj, "createdAt")) = "string"

\* isValidTodo(obj)
isValidTodo(obj) ==
  IF ~Truthy(obj) \/ TypeOf(obj) # "object"
    THEN FALSE
    ELSE /\ TypeOf(Prop(obj, "id")) = "string"
         /\ TypeOf(Prop(obj, "title")) = "string"
         /\ TypeOf(Prop(obj, "description")) = "string"
         /\ TypeOf(Prop(obj, "completed")) = "boolean"
         /\ \/ IsDate(Prop(obj, "createdAt"))
            \/ TypeOf(Prop(obj, "createdAt")) = "string"

\* isValidTodos looking at the first element only.
isValidTodosFirstOnly(data) ==
  IF ~IsArray(data)
    THEN FALSE
    ELSE Len(data.items) > 0 => isValidTodo(data.items[1])

\* isValidTodos(data)
isValidTodos(data) ==
  IF ~IsArray(data)
    THEN FALSE
    ELSE \A i \in 1..Len(data.items) : isValidTodo(data.items[i])

(* -------------------------- persistence gateway ----------------------- *)

CorruptedMsg == "Corrupted todo data found in sessionStorage, clearing..."

LoadFailedMsg == "Failed to load todos from sessionStorage:"

QuotaLogMsg == "SessionStorage quota exceeded:"

SaveFailedLogMsg == "Failed to save todos to sessionStorage:"

\* (the source writes the dash as U+2013)
QuotaMsg == "Storage quota exceeded - your latest changes may not be saved."

SaveFailedMsg == "Failed to save your changes to storage."

\* One console call.
Log(level, msg) == [level |-> level, msg |-> msg]

\* A map callback that copies the element and leaves createdAt as parsed.
WithDateKept(todo) == Obj(OwnProps(todo))

\* The element loadTodos' map callback builds from one parsed element:
\* {...todo, createdAt: <a Date for a string createdAt, else as it is>}.
WithDate(todo) ==
  LET props == OwnProps(todo)
      c == Prop(todo, "createdAt")
  IN  Obj([n \in DOMAIN props \cup {"createdAt"} |->
             IF n = "createdAt"
               THEN IF TypeOf(c) = "string" THEN NewDate(c.s) ELSE c
               ELSE props[n]])

\* Whether reading todo.createdAt throws a TypeError (todo is null).
ReadThrows(todo) == todo.k \in {"null", "undefined"}

\* loadTodos' catch block: the warning, then removeItem, which may itself
\* throw (faults.rmCatch) and then leaves loadTodos by that exception.
LoadCatch(stored, faults, diag) ==
  [ret |-> <<>>,
   raised |-> faults.rmCatch,
   store |-> IF faults.rmCatch THEN stored ELSE Absent,
   diag |-> Append(diag, Log("warn", LoadFailedMsg))]

\* loadTodos(), with stored the text under STORAGE_KEY (or Absent) and
\* faults saying which calls of the storage medium throw: get (getItem),
\* rmTry (removeItem in the try block), rmCatch (removeItem in the catch block).
loadTodos(stored, faults) ==
  IF faults.get
    THEN LoadCatch(stored, faults, <<>>)
    ELSE IF Falsy(stored)
      THEN [ret |-> <<>>, raised |-> FALSE, store |-> stored, diag |-> <<>>]
      ELSE IF ~Parses(stored)
        THEN LoadCatch(stored, faults, <<>>)
        ELSE LET parsed == stored.v
             IN  IF IsArray(parsed)
                      /\ \E i \in 1..Len(parsed.items) : ReadThrows(parsed.items[i])
                   THEN LoadCatch(stored, faults, <<>>)
                   ELSE LET todosWithDates ==
                              IF IsArray(parsed)
                                THEN Arr([i \in 1..Len(parsed.items) |->
                                            WithDate(parsed.items[i])])
                                ELSE parsed
                        IN  IF isValidTodos(todosWithDates)
                              THEN [ret |-> todosWithDates.items, raised |-> FALSE,
                                    store |-> stored, diag |-> <<>>]
                              ELSE IF faults.rmTry
                                THEN LoadCatch(stored, faults,
                                               <<Log("warn", CorruptedMsg)>>)
                                ELSE [ret |-> <<>>, raised |-> FALSE,
                                      store |-> Absent,
                                      diag |-> <<Log("warn", CorruptedMsg)>>]

\* What setItem does: NoThrow, or the value it throws.
NoThrow == [k |-> "nothrow"]

Thrown(isError, name) == [k |-> "thrown", isError |-> isError, name |-> name]

\* error instanceof Error && error.name === 'QuotaExceededError'
IsQuotaError(error) ==
  error.k = "thrown" /\ error.isError /\ error.name = "QuotaExceededError"

\* saveTodos with a catch block that reports only the quota error.
saveTodosQuotaOnly(list, stored, setFault) ==
  IF setFault = NoThrow
    THEN [ret |-> Null, raised |-> FALSE, store |-> JSONStringify(Arr(list)),
          diag |-> <<>>]
    ELSE IF IsQuotaError(setFault)
      THEN [ret |-> Str(QuotaMsg), raised |-> FALSE, store |-> stored,
            diag |-> <<Log("warn", QuotaLogMsg)>>]
      ELSE [ret |-> Null, raised |-> FALSE, store |-> stored,
            diag |-> <<Log("error", SaveFailedLogMsg)>>]

\* saveTodos that returns at once, writing nothing, for an empty list.
saveTodosSkipEmpty(list, stored, setFault) ==
  IF list = <<>> \/ setFault = NoThrow
    THEN [ret |-> Null, raised |-> FALSE,
          store |-> IF list = <<>> THEN stored ELSE JSONStringify(Arr(list)),
          diag |-> <<>>]
    ELSE IF IsQuotaError(setFault)
      THEN [ret |-> Str(QuotaMsg), raised |-> FALSE, store |-> stored,
            diag |-> <<Log("warn", QuotaLogMsg)>>]
      ELSE [ret |-> Str(SaveFailedMsg), raised |-> FALSE, store |-> stored,
            diag |-> <<Log("error", SaveFailedLogMsg)>>]

\* saveTodos(list), with stored the text under STORAGE_KEY before the call
\* and setFault what setItem does.
saveTodos(list, stored, setFault) ==
  LET serialized == JSONStringify(Arr(list))
  IN  IF setFault = NoThrow
        THEN [ret |-> Null, raised |-> FALSE, store |-> serialized, diag |-> <<>>]
        ELSE IF IsQuotaError(setFault)
          THEN [ret |-> Str(QuotaMsg), raised |-> FALSE, store |-> stored,
                diag |-> <<Log("warn", QuotaLogMsg)>>]
          ELSE [ret |-> Str(SaveFailedMsg), raised |-> FALSE, store |-> stored,
                diag |-> <<Log("error", SaveFailedLogMsg)>>]

(* ------------------- the gateway called on its own -------------------- *)

\* The sequences over S of length at most n.
SeqsUpTo(S, n) == UNION {[1..m -> S] : m \in 0..n}

\* A Todo object (types/Todo) with the given field values.
Todo(id, title, description, completed, createdAt) ==
  Obj([n \in {"id", "title", "description", "completed", "createdAt"} |->
         CASE n = "id" -> id
           [] n = "title" -> title
           [] n = "description" -> description
           [] n = "completed" -> completed
           [] OTHER -> createdAt])

\* Elements of stored arrays: JSON values, valid and not.
StoredElems ==
  { Null,
    Num(1),
    Obj([n \in {"invalid"} |-> Str("data")]),
    Todo(Str("a"), Str("Test"), Str("Desc"), Bool(FALSE), Str(ToISOString(MaxTime))),
    Todo(Str("b"), Str("Test"), Str("Desc"), Bool(TRUE), Str("2024-01-01")),
    Todo(Str("b"), Str("Test"), Str("Desc"), Bool(FALSE), Str("not a date")) }

\* The texts the storage medium may hold under the key before a call.
StoredTexts ==
  {RawText(""), RawText("invalid json")}
    \cup {JSONStringify(v) : v \in {Null, Num(1), Str("x")} \cup StoredElems}
    \cup {JSONStringify(Arr(a)) : a \in SeqsUpTo(StoredElems, MaxLen)}

\* Items of the lists handed to saveTodos: every one satisfies isValidTodo.
MemItems ==
  { Todo(Str("a"), Str("Test"), Str("Desc"), Bool(FALSE), DateV(MaxTime)),
    Todo(Str("b"), Str("Test"), Str("Desc"), Bool(TRUE), InvalidDate),
    Todo(Str("b"), Str("Test"), Str("Desc"), Bool(FALSE), Str(ToISOString(0))) }

MemLists == SeqsUpTo(MemItems, MaxLen)

\* Which storage calls of one loadTodos throw.
LoadFaults == [get : BOOLEAN, rmTry : BOOLEAN, rmCatch : BOOLEAN]

NoFaults == [get |-> FALSE, rmTry |-> FALSE, rmCatch |-> FALSE]

\* What setItem may do in one saveTodos.
SetFaults ==
  { NoThrow,
    Thrown(TRUE, "QuotaExceededError"),
    Thrown(TRUE, "Error"),
    Thrown(FALSE, "QuotaExceededError") }

\* A call of loadTodos() by a caller of the gateway.
CallLoad ==
  \E faults \in LoadFaults :
    LET r == loadTodos(store, faults)
    IN  /\ store' = r.store
        /\ call' = [op |-> "load", before |-> store, faults |-> faults,
                    ret |-> r.ret, raised |-> r.raised, diag |-> r.diag]
        /\ UNCHANGED avars

\* A call of saveTodos(todos) by a caller of the gateway.
CallSave ==
  \E list \in MemLists, setFault \in SetFaults :
    LET r == saveTodos(list, store, setFault)
    IN  /\ store' = r.store
        /\ call' = [op |-> "save", arg |-> list, fault |-> setFault,
                    ret |-> r.ret, raised |-> r.raised, diag |-> r.diag]
        /\ UNCHANGED avars

\* saveTodos called with the list the loadTodos call before it returned, as
\* the provider's effect does after the first render.
CallResave ==
  /\ call.op = "load"
  /\ ~call.raised
  /\ \E setFault \in SetFaults :
       LET r == saveTodos(call.ret, store, setFault)
       IN  /\ store' = r.store
           /\ call' = [op |-> "resave", arg |-> call.ret, fault |-> setFault,
                       ret |-> r.ret, raised |-> r.raised, diag |-> r.diag]
  /\ UNCHANGED avars

GatewayNext == CallLoad \/ CallSave \/ CallResave

(* --------------------------- notification relay ----------------------- *)

\* useToast's initial toastState.
InitialToast == [open |-> FALSE, message |-> "", severity |-> "info"]

\* showToast(message, severity): the state setToastState is given.
showToast(message, severity) ==
  [open |-> TRUE, message |-> message, severity |-> severity]

\* hideToast(): the state setToastState's updater returns for prev.
hideToast(prev) == [prev EXCEPT !.open = FALSE]

(* --------------------------- list state owner ------------------------- *)

NoEffect == [k |-> "none"]

\* The effect of a render whose todos is snapshot: saveTodos(snapshot).
SaveEffect(snapshot) == [k |-> "save", todos |-> snapshot]

\* uuidv4(): the n-th identifier handed out.
Uuid(n) == "uuid-" \o ToString(n)

\* What the storage medium holds when the provider is first rendered.
InitialStores ==
  { Absent,
    RawText("invalid json"),
    JSONStringify(Arr(<<Obj([n \in {"invalid"} |-> Str("data")])>>)),
    JSONStringify(Arr(<<Todo(Str("a"), Str("Test"), Str("Desc"), Bool(FALSE),
                             Str(ToISOString(0)))>>)),
    JSONStringify(Arr(<<Todo(Str("a"), Str("Test"), Str("Desc"), Bool(FALSE),
                             Str(ToISOString(0))),
                        Todo(Str("b"), Str("Test"), Str("Desc"), Bool(TRUE),
                             Str("not a date"))>>)) }

\* The partial fields editTodo is called with.
Updates ==
  { [n \in {"title", "completed"} |->
       IF n = "completed" THEN Bool(TRUE) ELSE Str("Edited")],
    [n \in {"id"} |-> Str("b")] }

\* The ids a mutator is called with: those on display and one that is not.
TargetIds ==
  {Prop(todos[i], "id").s : i \in 1..Len(todos)} \cup {"missing"}

\* {...todo, ...updates}
Merge(todo, updates) ==
  Obj([n \in DOMAIN todo.fields \cup DOMAIN updates |->
         IF n \in DOMAIN updates THEN updates[n] ELSE todo.fields[n]])

\* addTodo putting the new item first: [newTodo, ...list].
AddedFirst(list, id, title, description, now) ==
  <<Todo(Str(id), Str(title), Str(description), Bool(FALSE), DateV(now))>> \o list

\* addTodo's new list: [...list, newTodo].
Added(list, id, title, description, now) ==
  Append(list, Todo(Str(id), Str(title), Str(description), Bool(FALSE), DateV(now)))

\* editTodo replacing the item by the updates: no spread of the item.
EditedReplaced(list, id, updates) ==
  [i \in 1..Len(list) |->
     IF Prop(list[i], "id") = Str(id) THEN Obj(updates) ELSE list[i]]

\* editTodo's new list.
Edited(list, id, updates) ==
  [i \in 1..Len(list) |->
     IF Prop(list[i], "id") = Str(id) THEN Merge(list[i], updates) ELSE list[i]]

\* toggleTodoCompletion setting completed instead of negating it.
ToggledSet(list, id) ==
  [i \in 1..Len(list) |->
     IF Prop(list[i], "id") = Str(id)
       THEN Merge(list[i], [n \in {"completed"} |-> Bool(TRUE)])
       ELSE list[i]]

\* toggleTodoCompletion's new list.
Toggled(list, id) ==
  [i \in 1..Len(list) |->
     IF Prop(list[i], "id") = Str(id)
       THEN Merge(list[i],
                  [n \in {"completed"} |-> Bool(~Truthy(Prop(list[i], "completed")))])
       ELSE list[i]]

\* deleteTodo dropping the first item with it when it drops any.
DeletedWithFirst(list, id) ==
  LET kept == SelectSeq(list, LAMBDA todo : Prop(todo, "id") # Str(id))
  IN  IF kept = list \/ kept = <<>> THEN kept
      ELSE IF kept[1] = list[1] THEN Tail(kept) ELSE kept

\* deleteTodo's new list: list.filter(todo => todo.id !== id).
Deleted(list, id) == SelectSeq(list, LAMBDA todo : Prop(todo, "id") # Str(id))

\* setTodos(value), called by a mutator: queued until the next render.
SetTodos(value) ==
  /\ phase = "mounted"
  /\ Len(issued) < MaxOps
  /\ pending' = Append(pending, value)
  /\ issued' = Append(issued, value)
  /\ UNCHANGED <<store, call, phase, todos, effect, toastState,
                 loads, hydrated, commits, saved>>

\* The first render with an effect that skips it.
MountNoSave ==
  /\ phase = "init"
  /\ \E faults \in LoadFaults :
       LET r == loadTodos(store, faults)
       IN  /\ store' = r.store
           /\ loads' = loads + 1
           /\ IF r.raised
                THEN /\ phase' = "crashed"
                     /\ UNCHANGED <<todos, hydrated, commits, expected>>
                ELSE /\ phase' = "mounted"
                     /\ todos' = r.ret
                     /\ expected' = r.ret
                     /\ hydrated' = <<r.ret>>
                     /\ commits' = <<r.ret>>
  /\ UNCHANGED <<call, pending, effect, toastState, nextId, issued, saved>>

\* The first render: useState's initializer calls loadTodos() and its result
\* is the todos state; the effect of this render is scheduled. An exception
\* leaving loadTodos leaves the render too.
Mount ==
  /\ phase = "init"
  /\ \E faults \in LoadFaults :
       LET r == loadTodos(store, faults)
       IN  /\ store' = r.store
           /\ loads' = loads + 1
           /\ IF r.raised
                THEN /\ phase' = "crashed"
                     /\ UNCHANGED <<todos, effect, hydrated, commits, expected>>
                ELSE /\ phase' = "mounted"
                     /\ todos' = r.ret
                     /\ expected' = r.ret
                     /\ hydrated' = <<r.ret>>
                     /\ effect' = SaveEffect(r.ret)
                     /\ commits' = <<r.ret>>
  /\ UNCHANGED <<call, pending, toastState, nextId, issued, saved>>

\* addTodo(title, description)
AddTodo ==
  /\ \E now \in {0, MaxTime} :
       /\ SetTodos(Added(todos, Uuid(nextId + 1), "Test", "Desc", now))
       /\ expected' = Added(expected, Uuid(nextId + 1), "Test", "Desc", now)
  /\ nextId' = nextId + 1

\* editTodo(id, updates)
EditTodo ==
  /\ \E id \in TargetIds, updates \in Updates :
       /\ SetTodos(Edited(todos, id, updates))
       /\ expected' = Edited(expected, id, updates)
  /\ UNCHANGED nextId

\* toggleTodoCompletion(id)
ToggleTodoCompletion ==
  /\ \E id \in TargetIds :
       /\ SetTodos(Toggled(todos, id))
       /\ expected' = Toggled(expected, id)
  /\ UNCHANGED nextId

\* deleteTodo(id)
DeleteTodo ==
  /\ \E id \in TargetIds :
       /\ SetTodos(Deleted(todos, id))
       /\ expected' = Deleted(expected, id)
  /\ UNCHANGED nextId

\* A re-render whose effect is not scheduled (todos missing from its deps).
CommitNoEffect ==
  /\ phase = "mounted"
  /\ pending # <<>>
  /\ effect = NoEffect
  /\ todos' = pending[Len(pending)]
  /\ pending' = <<>>
  /\ commits' = Append(commits, pending[Len(pending)])
  /\ UNCHANGED <<store, call, phase, effect, toastState, nextId, loads,
                 hydrated, issued, saved, expected>>

\* A re-render after setTodos calls: the state becomes the value of the last
\* call, and since todos changed the effect of this render is scheduled. The
\* effect of the render before has run by then.
Commit ==
  /\ phase = "mounted"
  /\ pending # <<>>
  /\ effect = NoEffect
  /\ todos' = pending[Len(pending)]
  /\ pending' = <<>>
  /\ effect' = SaveEffect(pending[Len(pending)])
  /\ commits' = Append(commits, pending[Len(pending)])
  /\ UNCHANGED <<store, call, phase, toastState, nextId, loads, hydrated,
                 issued, saved, expected>>

\* The toastState after an effect that calls showToast whatever saveTodos returned.
NotifyAlways(errorMessage, toast) ==
  showToast(IF Truthy(errorMessage) THEN errorMessage.s ELSE "", "warning")

\* The toastState after the effect's "if (errorMessage) showToast(...)".
Notify(errorMessage, toast) ==
  IF Truthy(errorMessage) THEN showToast(errorMessage.s, "warning") ELSE toast

\* An effect that puts back the todos of the render before when the save fails.
RunEffectRollback ==
  /\ phase = "mounted"
  /\ effect # NoEffect
  /\ \E setFault \in SetFaults :
       LET r == saveTodos(effect.todos, store, setFault)
       IN  /\ store' = r.store
           /\ toastState' = Notify(r.ret, toastState)
           /\ saved' = Append(saved, [todos |-> effect.todos, ret |-> r.ret,
                                      before |-> toastState,
                                      toast |-> Notify(r.ret, toastState)])
           /\ todos' = IF Truthy(r.ret) /\ Len(commits) > 1
                         THEN commits[Len(commits) - 1]
                         ELSE todos
  /\ effect' = NoEffect
  /\ UNCHANGED <<call, phase, pending, nextId, loads, hydrated, issued, commits,
                 expected>>

\* The effect of a render: saveTodos(todos), then showToast for a failure.
RunEffect ==
  /\ phase = "mounted"
  /\ effect # NoEffect
  /\ \E setFault \in SetFaults :
       LET r == saveTodos(effect.todos, store, setFault)
       IN  /\ store' = r.store
           /\ toastState' = Notify(r.ret, toastState)
           /\ saved' = Append(saved, [todos |-> effect.todos, ret |-> r.ret,
                                      before |-> toastState,
                                      toast |-> Notify(r.ret, toastState)])
  /\ effect' = NoEffect
  /\ UNCHANGED <<call, phase, todos, pending, nextId, loads, hydrated,
                 issued, commits, expected>>

\* The Toast's onClose (its close button, or autoHideDuration running out).
HideToast ==
  /\ phase = "mounted"
  /\ toastState.open
  /\ toastState' = hideToast(toastState)
  /\ UNCHANGED <<store, call, phase, todos, pending, effect, nextId,
                 loads, hydrated, issued, commits, saved, expected>>

Init ==
  /\ store \in InitialStores
  /\ call = [op |-> "none"]
  /\ phase = "init"
  /\ todos = <<>>
  /\ pending = <<>>
  /\ effect = NoEffect
  /\ toastState = InitialToast
  /\ nextId = 0
  /\ loads = 0
  /\ hydrated = <<>>
  /\ issued = <<>>
  /\ commits = <<>>
  /\ saved = <<>>
  /\ expected = <<>>

Next ==
  \/ Mount
  \/ AddTodo
  \/ EditTodo
  \/ ToggleTodoCompletion
  \/ DeleteTodo
  \/ Commit
  \/ RunEffect
  \/ HideToast

Spec == Init /\ [][Next]_vars

\* The gateway called on its own: the provider is never rendered.
GatewayInit ==
  /\ store \in StoredTexts \cup {Absent}
  /\ call = [op |-> "none"]
  /\ phase = "init"
  /\ todos = <<>>
  /\ pending = <<>>
  /\ effect = NoEffect
  /\ toastState = InitialToast
  /\ nextId = 0
  /\ loads = 0
  /\ hydrated = <<>>
  /\ issued = <<>>
  /\ commits = <<>>
  /\ saved = <<>>
  /\ expected = <<>>

GatewaySpec == GatewayInit /\ [][GatewayNext]_vars

(* --------------------------- validator harness ------------------------ *)

TodoFields == {"id", "title", "description", "completed", "createdAt"}

\* A field an object literal does not have.
Missing == [k |-> "missing"]

\* What a field of an object handed to isValidTodo may hold.
FieldChoices ==
  {Missing, Str("true"), Num(1), Bool(FALSE), DateV(0), Null}

\* The object whose Todo fields are as c chooses, with one more property
\* when extra is not Missing.
ObjectOf(c, extra) ==
  LET names == {n \in TodoFields : c[n] # Missing}
                 \cup (IF extra = Missing THEN {} ELSE {"extra"})
  IN  Obj([n \in names |-> IF n = "extra" THEN extra ELSE c[n]])

\* Arguments of isValidTodo: primitives, null, undefined, arrays, a Date,
\* and objects with every choice of presence and type of the Todo fields.
ItemInputs ==
  {Undef, Null, Num(0), Num(1), Str(""), Str("not an object"), Bool(TRUE),
   DateV(0), Arr(<<>>)}
    \cup {ObjectOf(c, extra) : c \in [TodoFields -> FieldChoices],
                               extra \in {Missing, Str("field")}}

\* Arguments of isValidTodos: arrays of valid and invalid elements, and
\* values that are no arrays.
ListInputs ==
  {Undef, Null, Num(1), Str("not an array")}
    \cup {Arr(a) : a \in SeqsUpTo(StoredElems \cup MemItems, MaxLen)}

\* isValidTodo leaves by an exception: a property read of null or undefined
\* that the guard of its first line let through.
isValidTodoThrows(obj) ==
  /\ ~(~Truthy(obj) \/ TypeOf(obj) # "object")
  /\ ReadThrows(obj)

\* isValidTodos leaves by an exception: the one of an isValidTodo of every().
isValidTodosThrows(data) ==
  /\ IsArray(data)
  /\ \E i \in 1..Len(data.items) : isValidTodoThrows(data.items[i])

\* A call of isValidTodo(obj) on the drawn argument.
CallIsValidTodo ==
  /\ call.op = "input"
  /\ call' = [op |-> "isValidTodo", arg |-> call.arg,
              ret |-> isValidTodo(call.arg),
              raised |-> isValidTodoThrows(call.arg)]
  /\ UNCHANGED <<store, avars>>

\* A call of isValidTodos(data) on the drawn argument.
CallIsValidTodos ==
  /\ call.op = "input"
  /\ call' = [op |-> "isValidTodos", arg |-> call.arg,
              ret |-> isValidTodos(call.arg),
              raised |-> isValidTodosThrows(call.arg)]
  /\ UNCHANGED <<store, avars>>

ValidatorNext == CallIsValidTodo \/ CallIsValidTodos

\* The validator called on its own, on any argument.
ValidatorInit ==
  /\ store = Absent
  /\ call \in {[op |-> "input", arg |-> v] : v \in ItemInputs \cup ListInputs}
  /\ phase = "init"
  /\ todos = <<>>
  /\ pending = <<>>
  /\ effect = NoEffect
  /\ toastState = InitialToast
  /\ nextId = 0
  /\ loads = 0
  /\ hydrated = <<>>
  /\ issued = <<>>
  /\ commits = <<>>
  /\ saved = <<>>
  /\ expected = <<>>

ValidatorSpec == ValidatorInit /\ [][ValidatorNext]_vars

(* ---------------------------- mutator harness ------------------------- *)

NoArgs == [n \in {} |-> Undef]

\* The ids a mutator is applied with: those in the list and one that is not.
IdsIn(list) == {Prop(list[i], "id").s : i \in 1..Len(list)}

\* The record of one mutator applied to the list the last one gave.
Applied(op, id, args, result) ==
  [op |-> op, id |-> id, args |-> args, base |-> call.result, result |-> result,
   step |-> call.step + 1,
   prevOp |-> call.op, prevId |-> call.id, prevBase |-> call.base]

\* addTodo(title, description) on the list.
ApplyAdd ==
  /\ call.step < MaxOps
  /\ \E title \in {"Test", "Second"}, now \in {0, MaxTime} :
       call' = Applied("add", Uuid(nextId + 1),
                       [n \in {"title", "description"} |->
                          IF n = "title" THEN title ELSE "Desc"],
                       Added(call.result, Uuid(nextId + 1), title, "Desc", now))
  /\ nextId' = nextId + 1
  /\ UNCHANGED <<store, phase, todos, pending, effect, toastState,
                 loads, hydrated, issued, commits, saved, expected>>

\* editTodo(id, updates) on the list.
ApplyEdit ==
  /\ call.step < MaxOps
  /\ \E id \in IdsIn(call.result) \cup {"missing"}, updates \in Updates :
       call' = Applied("edit", id, updates, Edited(call.result, id, updates))
  /\ UNCHANGED <<store, avars>>

\* toggleTodoCompletion(id) on the list.
ApplyToggle ==
  /\ call.step < MaxOps
  /\ \E id \in IdsIn(call.result) \cup {"missing"} :
       call' = Applied("toggle", id, NoArgs, Toggled(call.result, id))
  /\ UNCHANGED <<store, avars>>

\* deleteTodo(id) on the list.
ApplyDelete ==
  /\ call.step < MaxOps
  /\ \E id \in IdsIn(call.result) \cup {"missing"} :
       call' = Applied("delete", id, NoArgs, Deleted(call.result, id))
  /\ UNCHANGED <<store, avars>>

MutatorNext == ApplyAdd \/ ApplyEdit \/ ApplyToggle \/ ApplyDelete

\* The mutators' list computations on their own, from any list of items.
MutatorInit ==
  /\ store = Absent
  /\ call \in {[op |-> "list", id |-> "", args |-> NoArgs, base |-> list,
                 result |-> list, step |-> 0,
                 prevOp |-> "list", prevId |-> "", prevBase |-> list] :
                  list \in MemLists}
  /\ phase = "init"
  /\ todos = <<>>
  /\ pending = <<>>
  /\ effect = NoEffect
  /\ toastState = InitialToast
  /\ nextId = 0
  /\ loads = 0
  /\ hydrated = <<>>
  /\ issued = <<>>
  /\ commits = <<>>
  /\ saved = <<>>
  /\ expected = <<>>

MutatorSpec == MutatorInit /\ [][MutatorNext]_vars

(* ------------------------------- claims ------------------------------- *)

\* The list a round trip is to give back for the saved list: the same
\* items in the same order, each createdAt a Date of the instant it denoted.
Hydrated(list) ==
  [i \in 1..Len(list) |->
     Obj([n \in DOMAIN list[i].fields |->
            IF n = "createdAt" /\ TypeOf(list[i].fields[n]) = "string"
              THEN NewDate(list[i].fields[n].s)
              ELSE list[i].fields[n]])]

\* C1: round trip. A loadTodos that follows a successful saveTodos(L) of a
\* list L satisfying isValidTodos, with the storage medium working, returns
\* a list deep-equal to L, every createdAt a Date of the original instant.
C1_RoundTrip ==
  [][(/\ call.op = "save"
      /\ call.ret = Null
      /\ isValidTodos(Arr(call.arg))
      /\ call'.op = "load"
      /\ call'.faults = NoFaults)
       => (/\ ~call'.raised
           /\ call'.ret = Hydrated(call.arg)
           /\ \A i \in 1..Len(call'.ret) :
                IsDate(Prop(call'.ret[i], "createdAt")))]_vars

\* C2: loadTodos never lets an exception escape, whatever is stored and
\* whichever storage calls (getItem, removeItem) throw.
C2_LoadNeverRaises == call.op = "load" => ~call.raised

\* The storage medium's classification of a thrown value as quota exhaustion.
QuotaClassified(fault) ==
  fault.k = "thrown" /\ fault.isError /\ fault.name = "QuotaExceededError"

\* C3: saveTodos never raises; it returns null exactly when setItem
\* succeeded, and the key then holds the JSON text of the list passed in; it
\* returns the quota message exactly when setItem threw a quota-classified
\* error, and the generic message for every other failure.
C3_SaveClassifies ==
  call.op = "save" =>
    /\ ~call.raised
    /\ (call.ret = Null) <=> (call.fault.k = "nothrow")
    /\ call.ret = Null => store = [k |-> "json", v |-> ToJSON(Arr(call.arg))]
    /\ (call.ret = Str(QuotaMsg)) <=> QuotaClassified(call.fault)
    /\ (call.fault.k = "thrown" /\ ~QuotaClassified(call.fault))
         => call.ret = Str(SaveFailedMsg)

\* C3 witness: a saveTodos whose setItem threw a quota error has returned.
C3_Witness ==
  /\ call.op = "save"
  /\ QuotaClassified(call.fault)
  /\ call.ret = Str(QuotaMsg)
  /\ Len(call.arg) > 0

\* C4: for every stored text that JSON.parse rejects, loadTodos (storage
\* medium working) returns the empty list, clears the key and emits the
\* decode-error diagnostic, not the corrupted-data one.
C4_CorruptedText ==
  (call.op = "load" /\ call.faults = NoFaults /\ call.before.k = "raw")
    => /\ ~call.raised
       /\ call.ret = <<>>
       /\ store = Absent
       /\ call.diag = <<Log("warn", LoadFailedMsg)>>

\* C5: for every stored text that decodes to a value that is not a valid
\* item list, loadTodos (storage medium working) returns the empty list,
\* clears the key and emits the corrupted-data diagnostic, not the catch-all.
C5_SchemaViolation ==
  (/\ call.op = "load"
   /\ call.faults = NoFaults
   /\ call.before.k = "json"
   /\ ~isValidTodos(call.before.v))
    => /\ ~call.raised
       /\ call.ret = <<>>
       /\ store = Absent
       /\ call.diag = <<Log("warn", CorruptedMsg)>>

\* The lists the effect has handed to saveTodos, in call order.
SavedLists == [i \in 1..Len(saved) |-> saved[i].todos]

\* Nothing queued and no effect waiting: the provider is at rest.
AtRest == phase = "mounted" /\ pending = <<>> /\ effect = NoEffect

\* C6: a failed save neither rolls back nor blocks the mutation. Once the
\* save of a render has returned a failure reason, todos is still the list
\* that was saved, which at rest is the result of the last mutator call, and
\* the mutators can still be called.
C6_FailedSaveKeepsMutation ==
  (saved # <<>> /\ Truthy(saved[Len(saved)].ret) /\ effect = NoEffect)
    => /\ phase = "mounted"
       /\ todos = saved[Len(saved)].todos
       /\ (pending = <<>> /\ issued # <<>>) => todos = issued[Len(issued)]
       /\ Len(issued) < MaxOps =>
            /\ ENABLED AddTodo
            /\ ENABLED EditTodo
            /\ ENABLED ToggleTodoCompletion
            /\ ENABLED DeleteTodo

\* C6 witness: the save of a mutation that changed the list has failed, and
\* the list is that mutation's result.
C6_Witness ==
  /\ AtRest
  /\ Len(saved) >= 2
  /\ Truthy(saved[Len(saved)].ret)
  /\ issued # <<>>
  /\ todos = issued[Len(issued)]
  /\ todos # commits[Len(commits) - 1]

C8_SeverityFollowsKind ==
  \A i \in 1..Len(saved) :
    /\ saved[i].ret = Str(QuotaMsg) => saved[i].toast.severity = "warning"
    /\ saved[i].ret = Str(SaveFailedMsg) => saved[i].toast.severity = "error"

\* C9: a save's result reaches the relay exactly when it is a failure
\* reason: right after a failed save the toast is open with that message; a
\* save that returned null leaves the toast as it was; and while every save
\* has returned null the toast has never been opened.
C9_ToastIffFailure ==
  /\ \A i \in 1..Len(saved) :
       IF saved[i].ret = Null
         THEN saved[i].toast = saved[i].before
         ELSE saved[i].toast.open /\ saved[i].toast.message = saved[i].ret.s
  /\ (\A i \in 1..Len(saved) : saved[i].ret = Null) => toastState = InitialToast
  /\ toastState.open =>
       \E i \in 1..Len(saved) :
         saved[i].ret # Null /\ toastState.message = saved[i].ret.s

\* C9 witness: a save failed and a later one succeeded with the toast
\* still open.
C9_Witness ==
  /\ Len(saved) >= 2
  /\ saved[1].ret = Str(SaveFailedMsg)
  /\ saved[2].ret = Null
  /\ toastState.open
  /\ toastState.message = SaveFailedMsg

\* C10: the first render calls loadTodos exactly once and makes its result
\* the todos state; the first save is of that hydrated list and comes before
\* the save of any mutation, whether or not a mutation follows.
C10_HydrateThenSave ==
  /\ loads <= 1
  /\ phase = "init" <=> loads = 0
  /\ phase # "mounted" => saved = <<>> /\ issued = <<>>
  /\ phase = "mounted" =>
       /\ Len(hydrated) = 1
       /\ commits[1] = hydrated[1]
       /\ saved = <<>> => effect = SaveEffect(hydrated[1]) /\ todos = hydrated[1]
       /\ saved # <<>> => saved[1].todos = hydrated[1]

\* C10 witness: a non-empty hydrated list has been saved again with no
\* mutator ever called.
C10_Witness ==
  /\ phase = "mounted"
  /\ hydrated[1] # <<>>
  /\ issued = <<>>
  /\ Len(saved) = 1
  /\ saved[1].todos = hydrated[1]
  /\ saved[1].ret = Null

\* The fields of v, when v is an object that is neither null, an array nor a
\* Date; no fields otherwise.
FieldsOf(v) == IF v.k = "object" THEN v.fields ELSE [n \in {} |-> Undef]

HasKind(v, name, kinds) ==
  /\ name \in DOMAIN FieldsOf(v)
  /\ FieldsOf(v)[name].k \in kinds

\* C11: isValidTodo returns a boolean for every argument and never raises,
\* and it returns true exactly for a non-null object whose id, title and
\* description are strings, whose completed is a boolean and whose
\* createdAt is a Date or a string, whatever other fields it has.
C11_ValidatorExact ==
  call.op = "isValidTodo" =>
    /\ ~call.raised
    /\ call.ret \in BOOLEAN
    /\ call.ret <=>
         /\ HasKind(call.arg, "id", {"string"})
         /\ HasKind(call.arg, "title", {"string"})
         /\ HasKind(call.arg, "description", {"string"})
         /\ HasKind(call.arg, "completed", {"boolean"})
         /\ HasKind(call.arg, "createdAt", {"date", "string"})

\* isValidTodo has accepted an object with a field beyond the Todo fields.
C11_Witness ==
  /\ call.op = "isValidTodo"
  /\ call.ret = TRUE
  /\ call.arg.k = "object"
  /\ "extra" \in DOMAIN call.arg.fields

\* C12: isValidTodos returns true exactly for an array whose every element
\* satisfies isValidTodo: the empty array is valid, a value that is no array
\* is not, and one invalid element at any position makes the array invalid.
C12_ListValidator ==
  call.op = "isValidTodos" =>
    /\ ~call.raised
    /\ call.ret <=>
         /\ call.arg.k = "array"
         /\ \A i \in 1..Len(call.arg.items) : isValidTodo(call.arg.items[i])
    /\ call.arg = Arr(<<>>) => call.ret = TRUE
    /\ call.arg.k # "array" => call.ret = FALSE

\* isValidTodos has rejected an array whose first element is valid and
\* whose last is not.
C12_Witness ==
  /\ call.op = "isValidTodos"
  /\ call.ret = FALSE
  /\ call.arg.k = "array"
  /\ Len(call.arg.items) = MaxLen
  /\ isValidTodo(call.arg.items[1])
  /\ ~isValidTodo(call.arg.items[MaxLen])

\* The item at i of the list matches the id.
Matches(list, i, id) == list[i].fields["id"] = Str(id)

\* C13: addTodo gives the same list with exactly one item appended at the
\* end; the new item has the given title and description, completed false,
\* and an id that no item of the list has.
C13_AddAppends ==
  call.op = "add" =>
    LET n == Len(call.base)
        new == call.result[n + 1].fields
    IN  /\ Len(call.result) = n + 1
        /\ \A i \in 1..n : call.result[i] = call.base[i]
        /\ new["title"] = Str(call.args["title"])
        /\ new["description"] = Str(call.args["description"])
        /\ new["completed"] = Bool(FALSE)
        /\ \A i \in 1..n : call.base[i].fields["id"] # new["id"]

\* addTodo has been applied to a list of two or more items, one of them
\* added before.
C13_Witness ==
  /\ call.op = "add"
  /\ call.prevOp = "add"
  /\ Len(call.base) >= 2

\* C14: editTodo is a shallow merge with a tight frame: an item whose id
\* matches has exactly the supplied fields replaced and keeps its others,
\* every other item is unchanged, length and order stay, and with no
\* matching item the list is unchanged.
C14_EditMerges ==
  call.op = "edit" =>
    /\ Len(call.result) = Len(call.base)
    /\ \A i \in 1..Len(call.base) :
         LET old == call.base[i].fields
             new == call.result[i].fields
         IN  IF Matches(call.base, i, call.id)
               THEN /\ call.result[i].k = "object"
                    /\ DOMAIN new = DOMAIN old \cup DOMAIN call.args
                    /\ \A n \in DOMAIN call.args : new[n] = call.args[n]
                    /\ \A n \in DOMAIN old \ DOMAIN call.args : new[n] = old[n]
               ELSE call.result[i] = call.base[i]
    /\ (\A i \in 1..Len(call.base) : ~Matches(call.base, i, call.id))
         => call.result = call.base

\* editTodo has changed the title of one item of a list and left another.
C14_Witness ==
  /\ call.op = "edit"
  /\ "title" \in DOMAIN call.args
  /\ \E i, j \in 1..Len(call.base) :
       /\ Matches(call.base, i, call.id)
       /\ ~Matches(call.base, j, call.id)
       /\ call.result[i] # call.base[i]

\* C15: toggleTodoCompletion negates completed of the matching item and
\* changes nothing else, is a no-op when no item matches, and applied twice
\* with the same id gives back the list it started from.
C15_ToggleNegates ==
  call.op = "toggle" =>
    /\ Len(call.result) = Len(call.base)
    /\ \A i \in 1..Len(call.base) :
         LET old == call.base[i].fields
             new == call.result[i].fields
         IN  IF Matches(call.base, i, call.id)
               THEN /\ DOMAIN new = DOMAIN old
                    /\ new["completed"] = Bool(~old["completed"].b)
                    /\ \A n \in DOMAIN old \ {"completed"} : new[n] = old[n]
               ELSE call.result[i] = call.base[i]
    /\ (\A i \in 1..Len(call.base) : ~Matches(call.base, i, call.id))
         => call.result = call.base
    /\ (call.prevOp = "toggle" /\ call.prevId = call.id)
         => call.result = call.prevBase

\* toggleTodoCompletion has been applied twice to a matching item that was
\* completed.
C15_Witness ==
  /\ call.op = "toggle"
  /\ call.prevOp = "toggle"
  /\ call.prevId = call.id
  /\ \E i \in 1..Len(call.prevBase) :
       /\ Matches(call.prevBase, i, call.id)
       /\ call.prevBase[i].fields["completed"] = Bool(TRUE)

\* The positions of the list whose item does not match the id.
KeptAt(list, id) == {i \in 1..Len(list) : ~Matches(list, i, id)}

\* C16: deleteTodo removes the matching item and keeps all the others in
\* their order, is a no-op when no item matches, and after addTodo the
\* deletion of the new item's id gives back the list before the addition.
C16_DeleteRemoves ==
  call.op = "delete" =>
    LET kept == KeptAt(call.base, call.id)
    IN  /\ Len(call.result) = Cardinality(kept)
        /\ \A j \in 1..Len(call.result) :
             \E i \in kept :
               /\ Cardinality({k \in kept : k <= i}) = j
               /\ call.result[j] = call.base[i]
        /\ kept = 1..Len(call.base) => call.result = call.base
        /\ (call.prevOp = "add" /\ call.prevId = call.id)
             => call.result = call.prevBase

\* deleteTodo has removed the item that addTodo had just appended to a list
\* that was not empty.
C16_Witness ==
  /\ call.op = "delete"
  /\ call.prevOp = "add"
  /\ call.prevId = call.id
  /\ call.prevBase # <<>>
  /\ Len(call.result) < Len(call.base)

\* The ids of the items of the list, in order.
IdsOf(list) == [i \in 1..Len(list) |-> Prop(list[i], "id")]

\* The ids items were created with: those of the hydrated list and those
\* uuidv4 handed to addTodo.
CreatedIds ==
  {IdsOf(hydrated[1])[i] : i \in 1..Len(hydrated[1])}
    \cup {Str(Uuid(n)) : n \in 1..nextId}

\* C17: after any sequence of addTodo, editTodo (with any partial fields),
\* toggleTodoCompletion and deleteTodo, every item on display has an id an
\* item was created with, and the ids on display are pairwise distinct.
C17_IdsImmutableDistinct ==
  phase = "mounted" =>
    /\ \A i \in 1..Len(todos) : IdsOf(todos)[i] \in CreatedIds
    /\ \A i, j \in 1..Len(todos) : IdsOf(todos)[i] = IdsOf(todos)[j] => i = j

\* C18: loadTodos with nothing stored under the key, and a storage that
\* can be read, returns the empty list, leaves the storage as it is and
\* logs nothing.
C18_FirstRun ==
  (call.op = "load" /\ call.before = Absent /\ ~call.faults.get) =>
    /\ ~call.raised
    /\ call.ret = <<>>
    /\ store = Absent
    /\ call.diag = <<>>

\* loadTodos has run with nothing stored, in a storage whose removeItem
\* would throw.
C18_Witness ==
  /\ call.op = "load"
  /\ call.before = Absent
  /\ ~call.faults.get
  /\ call.faults.rmTry
  /\ call.faults.rmCatch
  /\ call.ret = <<>>

\* C19: every list loadTodos returns satisfies isValidTodos and has a Date,
\* never a string, as the createdAt of every item; and for a stored valid
\* list loadTodos returns its items in stored order, createdAt revived, and
\* leaves the storage as it is.
C19_LoadReturnsValid ==
  (call.op = "load" /\ ~call.raised) =>
    /\ isValidTodos(Arr(call.ret))
    /\ \A i \in 1..Len(call.ret) : call.ret[i].fields["createdAt"].k = "date"
    /\ (~call.faults.get /\ call.before.k = "json" /\ isValidTodos(call.before.v))
         => /\ Len(call.ret) = Len(call.before.v.items)
            /\ \A i \in 1..Len(call.ret) :
                 LET old == call.before.v.items[i].fields
                     new == call.ret[i].fields
                 IN  /\ DOMAIN new = DOMAIN old
                     /\ \A n \in DOMAIN old \ {"createdAt"} : new[n] = old[n]
                     /\ new["createdAt"] = NewDate(old["createdAt"].s)
            /\ store = call.before

\* loadTodos has returned a stored list of MaxLen items whose ids differ.
C19_Witness ==
  /\ call.op = "load"
  /\ ~call.raised
  /\ Len(call.ret) = MaxLen
  /\ call.ret[1].fields["id"] # call.ret[MaxLen].fields["id"]
  /\ store = call.before

\* C20: when getItem raises, loadTodos logs the catch-all warning, tries to
\* remove the key and returns the empty list.
C20_ReadRaises ==
  (call.op = "load" /\ call.faults.get) =>
    /\ call.diag = <<Log("warn", LoadFailedMsg)>>
    /\ ~call.faults.rmCatch => store = Absent
    /\ ~call.raised
    /\ call.ret = <<>>

\* C21: no mutation is lost: once the provider has re-rendered after the
\* mutator calls issued so far, several of them back to back included, the
\* list on display is the one the calls give when applied one after another
\* in issue order.
C21_NoLostMutation ==
  (phase = "mounted" /\ pending = <<>>) => todos = expected

\* C22: storage tracks memory: whenever no effect is waiting and the last
\* saveTodos returned null, the text under the key is the JSON text of the
\* todos state; so after a first render from absent or corrupted storage
\* the key holds the JSON text of the empty array.
C22_StorageTracksMemory ==
  /\ (phase = "mounted" /\ effect = NoEffect)
       => /\ saved # <<>>
          /\ saved[Len(saved)].ret = Null => store = JSONStringify(Arr(todos))
  /\ (phase = "mounted" /\ effect = NoEffect /\ Len(saved) = 1
        /\ hydrated[1] = <<>> /\ saved[1].ret = Null)
       => store = [k |-> "json", v |-> Arr(<<>>)]

\* After a first render that found nothing usable and wrote the empty
\* array, a mutation has been rendered and saved, and the provider is at rest.
C22_Witness ==
  /\ AtRest
  /\ hydrated[1] = <<>>
  /\ Len(saved) = 2
  /\ saved[1].ret = Null
  /\ saved[2].ret = Null
  /\ todos # <<>>
  /\ store = JSONStringify(Arr(todos))

\* C23: the save of a hydrated list loses nothing: when loadTodos has
\* returned a list that is not empty and saveTodos has stored it, the next
\* loadTodos returns an equal list, also when a stored createdAt was a
\* text that is no date.
C23_ResaveKeepsData ==
  [][(/\ call.op = "resave"
      /\ call.arg # <<>>
      /\ call.ret = Null
      /\ call'.op = "load"
      /\ call'.faults = NoFaults)
     => (~call'.raised /\ call'.ret = call.arg)]_vars

====
